---- MODULE Spec2Model ----
(***************************************************************************)
(* Model of src/Extrafiscal.py: the batch extractor of inspection reports. *)
(*                                                                         *)
(* Text is modelled character by character.  A Python str is a sequence    *)
(* of characters; a character is a TLA+ string.  ASCII characters are      *)
(* themselves ("A", " ", "\n"); an accented Latin-1 letter is written as   *)
(* its base letter followed by an ASCII accent mark, so the module is      *)
(* plain ASCII:  "a'" = a-acute, "a~" = a-tilde, "c," = c-cedilla,         *)
(* "u'" = u-acute, "i'" = i-acute, "o'" = o-acute, "e'" = e-acute and the  *)
(* same with the capital letter first ("C," "A~" ...).                     *)
(*                                                                         *)
(* Regular expressions are data (a sequence of items) interpreted by a     *)
(* backtracking matcher with the priorities of Python's re module, so that *)
(* every pattern of the source appears in the model as written there.      *)
(***************************************************************************)
EXTENDS Integers, Sequences, FiniteSets, TLC

\* ------------------------------------------------------------ characters

Digits == {"0", "1", "2", "3", "4", "5", "6", "7", "8", "9"}

\* \s of the re module, restricted to the characters the model uses
Whitespace == {" ", "\n", "\t"}

UpperAscii == {"A", "B", "C", "D", "E", "F", "G", "H", "I", "J", "K", "L", "M",
               "N", "O", "P", "Q", "R", "S", "T", "U", "V", "W", "X", "Y", "Z"}

LowerAscii == {"a", "b", "c", "d", "e", "f", "g", "h", "i", "j", "k", "l", "m",
               "n", "o", "p", "q", "r", "s", "t", "u", "v", "w", "x", "y", "z"}

\* the letters of the range À-ÿ the model uses
UpperAccented == {"A'", "A~", "C,", "E'", "I'", "O'", "O~", "U'"}

LowerAccented == {"a'", "a~", "c,", "e'", "i'", "o'", "o~", "u'"}

\* str.lower() of one character
LowerOf ==
    ("A" :> "a") @@ ("B" :> "b") @@ ("C" :> "c") @@ ("D" :> "d") @@ ("E" :> "e") @@
    ("F" :> "f") @@ ("G" :> "g") @@ ("H" :> "h") @@ ("I" :> "i") @@ ("J" :> "j") @@
    ("K" :> "k") @@ ("L" :> "l") @@ ("M" :> "m") @@ ("N" :> "n") @@ ("O" :> "o") @@
    ("P" :> "p") @@ ("Q" :> "q") @@ ("R" :> "r") @@ ("S" :> "s") @@ ("T" :> "t") @@
    ("U" :> "u") @@ ("V" :> "v") @@ ("W" :> "w") @@ ("X" :> "x") @@ ("Y" :> "y") @@
    ("Z" :> "z") @@ ("A'" :> "a'") @@ ("A~" :> "a~") @@ ("C," :> "c,") @@
    ("E'" :> "e'") @@ ("I'" :> "i'") @@ ("O'" :> "o'") @@ ("O~" :> "o~") @@
    ("U'" :> "u'")

Lower(c) == IF c \in DOMAIN LowerOf THEN LowerOf[c] ELSE c

\* str.upper() of one character
Upper(c) ==
    IF \E u \in DOMAIN LowerOf : LowerOf[u] = c
    THEN CHOOSE u \in DOMAIN LowerOf : LowerOf[u] = c
    ELSE c

\* ------------------------------------------------------------ str methods

\* the element of a one-element set.  The({e(v) : v \in {x}}) is e with the
\* local variable v assigned the value of x once
The(S) == CHOOSE v \in S : TRUE

\* s[a:b] with 1-based inclusive bounds; empty when a > b
Slice(s, a, b) == IF a > b THEN <<>> ELSE SubSeq(s, a, b)

\* str.lower()
lower(s) == [i \in 1..Len(s) |-> Lower(s[i])]

\* str.capitalize(): first character upper-cased, the rest lower-cased
capitalize(s) == [i \in 1..Len(s) |-> IF i = 1 THEN Upper(s[i]) ELSE Lower(s[i])]

\* str.strip()
strip(s) ==
    LET keep == {i \in 1..Len(s) : s[i] \notin Whitespace}
    IN  IF keep = {} THEN <<>>
        ELSE Slice(s, CHOOSE i \in keep : \A j \in keep : i <= j,
                      CHOOSE i \in keep : \A j \in keep : i >= j)

\* whether the literal lit stands in s at position p
LitAt(s, p, lit, ci) ==
    /\ p + Len(lit) - 1 <= Len(s)
    /\ \A j \in 1..Len(lit) :
          IF ci THEN Lower(s[p + j - 1]) = Lower(lit[j]) ELSE s[p + j - 1] = lit[j]

\* lit in s
Contains(s, lit) == \E p \in 1..(Len(s) + 1) : LitAt(s, p, lit, FALSE)

\* s.find(lit) as a 1-based position, 0 when absent
Find(s, lit) ==
    LET ps == {p \in 1..(Len(s) + 1) : LitAt(s, p, lit, FALSE)}
    IN  IF ps = {} THEN 0 ELSE CHOOSE p \in ps : \A q \in ps : p <= q

\* str.split(): the words of s, split on runs of whitespace
RECURSIVE SplitWsFrom(_, _)
SplitWsFrom(s, p) ==
    LET starts == {i \in p..Len(s) : s[i] \notin Whitespace}
    IN  IF starts = {} THEN <<>>
        ELSE LET a == CHOOSE i \in starts : \A j \in starts : i <= j
                 stops == {i \in a..Len(s) : s[i] \in Whitespace}
                 b == IF stops = {} THEN Len(s) + 1
                      ELSE CHOOSE i \in stops : \A j \in stops : i <= j
             IN  <<Slice(s, a, b - 1)>> \o SplitWsFrom(s, b)

split(s) == SplitWsFrom(s, 1)

\* sep.join(parts) for a one-character separator
RECURSIVE join(_, _)
join(sep, parts) ==
    IF parts = <<>> THEN <<>>
    ELSE IF Len(parts) = 1 THEN parts[1]
    ELSE parts[1] \o <<sep>> \o join(sep, Tail(parts))

\* str.split(c) for a one-character separator: the pieces, empty ones included
RECURSIVE SplitCharFrom(_, _, _)
SplitCharFrom(s, c, p) ==
    LET seps == {i \in p..Len(s) : s[i] = c}
    IN  IF seps = {} THEN <<Slice(s, p, Len(s))>>
        ELSE LET b == CHOOSE i \in seps : \A j \in seps : i <= j
             IN  <<Slice(s, p, b - 1)>> \o SplitCharFrom(s, c, b + 1)

\* ------------------------------------------------------------ re module
(* A pattern is a sequence of items:                                       *)
(*   [k |-> "lit", s |-> chars]            the literal text                *)
(*   [k |-> "alt", alts |-> <<chars,..>>]  (?:a|b|..) of literal texts     *)
(*   [k |-> "rep", neg, set, min, max, lazy]                               *)
(*        a character class ([^set] when neg) repeated min..max times,     *)
(*        greedy unless lazy; max = -1 for * and + (no maximum)            *)
(*   [k |-> "open", g], [k |-> "close", g] the parentheses of group g      *)
(*   [k |-> "look", alts |-> <<pattern,..>>]   (?=a|b|..)                  *)
(*   [k |-> "bos"]  ^      [k |-> "eol"]  $      [k |-> "eos"]  \Z         *)

Lit(s) == [k |-> "lit", s |-> s]
Alt(alts) == [k |-> "alt", alts |-> alts]
Rep(neg, set, min, max, lazy) ==
    [k |-> "rep", neg |-> neg, set |-> set, min |-> min, max |-> max, lazy |-> lazy]
Star(set) == Rep(FALSE, set, 0, -1, FALSE)
Plus(set) == Rep(FALSE, set, 1, -1, FALSE)
Opt(set) == Rep(FALSE, set, 0, 1, FALSE)
One(set) == Rep(FALSE, set, 1, 1, FALSE)
Open(g) == [k |-> "open", g |-> g]
Close(g) == [k |-> "close", g |-> g]
Look(alts) == [k |-> "look", alts |-> alts]
Bos == [k |-> "bos"]
Eol == [k |-> "eol"]
Eos == [k |-> "eos"]

NoCaps == [g \in 1..2 |-> [s |-> 0, e |-> 0]]

\* a match object: where the match starts and ends (end is the position after
\* its last character) and the bounds of its groups; ok is FALSE for None
NoMatch == [ok |-> FALSE, start |-> 0, end |-> 0, caps |-> NoCaps]

\* whether character c is in the class; under IGNORECASE either case counts
InClass(it, c, ci) ==
    LET in == IF ci THEN \/ c \in it.set
                         \/ Lower(c) \in it.set
                         \/ Upper(c) \in it.set
              ELSE c \in it.set
    IN  IF it.neg THEN ~in ELSE in

\* the length of the longest run of class characters from p, at most it.max
\* (a negative it.max is no maximum)
RunLen(it, s, p, ci) ==
    LET stops == {q \in p..Len(s) : ~InClass(it, s[q], ci)}
        run == IF stops = {} THEN Len(s) + 1 - p
               ELSE (CHOOSE q \in stops : \A q1 \in stops : q <= q1) - p
    IN  IF it.max >= 0 /\ run > it.max THEN it.max ELSE run

\* M: the first match, in backtracking order, of items k.. of re at position p.
\* A repetition takes, of the counts min..run after which the rest matches,
\* the largest when greedy and the smallest when lazy; an alternation takes
\* the first alternative after which the rest matches.
RECURSIVE M(_, _, _, _, _, _)
M(re, k, s, p, ci, caps) ==
    IF k > Len(re) THEN [ok |-> TRUE, start |-> 0, end |-> p, caps |-> caps]
    ELSE LET it == re[k] IN
      CASE it.k = "lit" ->
             IF LitAt(s, p, it.s, ci) THEN M(re, k + 1, s, p + Len(it.s), ci, caps)
             ELSE NoMatch
        [] it.k = "alt" ->
             The({ IF as = {} THEN NoMatch
                   ELSE M(re, k + 1, s,
                          p + Len(it.alts[CHOOSE a \in as : \A a1 \in as : a <= a1]),
                          ci, caps)
                   : as \in { {a \in 1..Len(it.alts) :
                                 /\ LitAt(s, p, it.alts[a], ci)
                                 /\ M(re, k + 1, s, p + Len(it.alts[a]), ci, caps).ok} } })
        [] it.k = "rep" ->
             The({ IF ns = {} THEN NoMatch
                   ELSE M(re, k + 1, s,
                          p + (IF it.lazy
                               THEN CHOOSE n \in ns : \A n1 \in ns : n <= n1
                               ELSE CHOOSE n \in ns : \A n1 \in ns : n >= n1),
                          ci, caps)
                   : ns \in { {n \in it.min..RunLen(it, s, p, ci) :
                                 M(re, k + 1, s, p + n, ci, caps).ok} } })
        [] it.k = "open" ->
             M(re, k + 1, s, p, ci, [caps EXCEPT ![it.g].s = p])
        [] it.k = "close" ->
             M(re, k + 1, s, p, ci, [caps EXCEPT ![it.g].e = p])
        [] it.k = "look" ->
             IF \E a \in 1..Len(it.alts) : M(it.alts[a], 1, s, p, ci, caps).ok
             THEN M(re, k + 1, s, p, ci, caps)
             ELSE NoMatch
        [] it.k = "bos" ->
             IF p = 1 THEN M(re, k + 1, s, p, ci, caps) ELSE NoMatch
        [] it.k = "eol" ->
             IF p = Len(s) + 1 \/ (p = Len(s) /\ s[p] = "\n")
             THEN M(re, k + 1, s, p, ci, caps) ELSE NoMatch
        [] it.k = "eos" ->
             IF p = Len(s) + 1 THEN M(re, k + 1, s, p, ci, caps) ELSE NoMatch

\* the match of re that starts at p, if any
MatchAt(re, s, p, ci) == [M(re, 1, s, p, ci, NoCaps) EXCEPT !.start = p]

\* re.match(re, s): a match at the start of s
match(re, s, ci) == MatchAt(re, s, 1, ci)

\* the leftmost match of re in s that starts at p0 or later
SearchFrom(re, s, ci, p0) ==
    The({ IF ms = {} THEN NoMatch
          ELSE CHOOSE m \in ms : \A m1 \in ms : m.start <= m1.start
          : ms \in { {m \in {MatchAt(re, s, p, ci) : p \in p0..(Len(s) + 1)} : m.ok} } })

\* re.search(re, s): the leftmost match
search(re, s, ci) == SearchFrom(re, s, ci, 1)

\* match.group(g)
group(s, r, g) == Slice(s, r.caps[g].s, r.caps[g].e - 1)

\* len(re.findall(re, s)): the non-overlapping matches, left to right
RECURSIVE CountFrom(_, _, _, _)
CountFrom(re, s, ci, p) ==
    The({ IF ~m.ok THEN 0
          ELSE 1 + CountFrom(re, s, ci, IF m.end = m.start THEN m.end + 1 ELSE m.end)
          : m \in {SearchFrom(re, s, ci, p)} })

findall_len(re, s, ci) == CountFrom(re, s, ci, 1)

\* re.sub(re, '', s) from position p on: s[p:] without the non-overlapping
\* matches of re
RECURSIVE SubFrom(_, _, _, _)
SubFrom(re, s, ci, p) ==
    The({ IF ~m.ok THEN Slice(s, p, Len(s))
          ELSE IF m.end = m.start
               THEN IF m.start > Len(s) THEN Slice(s, p, Len(s))
                    ELSE Slice(s, p, m.start) \o SubFrom(re, s, ci, m.start + 1)
               ELSE Slice(s, p, m.start - 1) \o SubFrom(re, s, ci, m.end)
          : m \in {SearchFrom(re, s, ci, p)} })

sub_empty(re, s, ci) == SubFrom(re, s, ci, 1)

\* ------------------------------------------------------------ literals of the source

\* "SEM"
SEM == <<"S", "E", "M">>

\* "NAO"
NAO == <<"N", "A", "O">>

\* "NA~O"
NAO_til == <<"N", "A~", "O">>

\* "NAO INFORMADO"
NAO_INFORMADO ==
    <<"N", "A", "O", " ", "I", "N", "F", "O", "R", "M", "A", "D", "O">>

\* "SEM INFORMAC,A~O"
SEM_INFORMACAO ==
    <<"S", "E", "M", " ", "I", "N", "F", "O", "R", "M", "A", "C,", "A~",
      "O">>

\* "PROCESSO"
PROCESSO == <<"P", "R", "O", "C", "E", "S", "S", "O">>

\* "PROTOCOLO"
PROTOCOLO == <<"P", "R", "O", "T", "O", "C", "O", "L", "O">>

\* "RF Principal"
Lit_RF_Principal == <<"R", "F", " ", "P", "r", "i", "n", "c", "i", "p", "a", "l">>

\* "TOTAL"
TOTAL == <<"T", "O", "T", "A", "L">>

\* "Nu'mero"
L_Numero == <<"N", "u'", "m", "e", "r", "o">>

\* "Fiscalizac,a~o"
L_Fiscalizacao ==
    <<"F", "i", "s", "c", "a", "l", "i", "z", "a", "c,", "a~", "o">>

\* "Responsa'vel"
L_Responsavel == <<"R", "e", "s", "p", "o", "n", "s", "a'", "v", "e", "l">>

\* "Data"
L_Data == <<"D", "a", "t", "a">>

\* "Relato'rio"
L_Relatorio == <<"R", "e", "l", "a", "t", "o'", "r", "i", "o">>

\* "Fonte Informac,a~o"
L_Fonte_Informacao ==
    <<"F", "o", "n", "t", "e", " ", "I", "n", "f", "o", "r", "m", "a",
      "c,", "a~", "o">>

\* "01 - Enderec,o Empreendimento"
Titulo01 ==
    <<"0", "1", " ", "-", " ", "E", "n", "d", "e", "r", "e", "c,", "o",
      " ", "E", "m", "p", "r", "e", "e", "n", "d", "i", "m", "e", "n", "t",
      "o">>

\* "02 - Identificac,a~o del Contratante del Empreendimento"
Titulo02 ==
    <<"0", "2", " ", "-", " ", "I", "d", "e", "n", "t", "i", "f", "i", "c",
      "a", "c,", "a~", "o", " ", "d", "e", "l", " ", "C", "o", "n", "t",
      "r", "a", "t", "a", "n", "t", "e", " ", "d", "e", "l", " ", "E", "m",
      "p", "r", "e", "e", "n", "d", "i", "m", "e", "n", "t", "o">>

\* "03 - Atividade Desenvolvida"
Titulo03 ==
    <<"0", "3", " ", "-", " ", "A", "t", "i", "v", "i", "d", "a", "d", "e",
      " ", "D", "e", "s", "e", "n", "v", "o", "l", "v", "i", "d", "a">>

\* "04 - Identificac,a~o dos Contratados, Responsa'veis Te'cnicos e/ou Fiscalizados"
Titulo04 ==
    <<"0", "4", " ", "-", " ", "I", "d", "e", "n", "t", "i", "f", "i", "c",
      "a", "c,", "a~", "o", " ", "d", "o", "s", " ", "C", "o", "n", "t",
      "r", "a", "t", "a", "d", "o", "s", ",", " ", "R", "e", "s", "p", "o",
      "n", "s", "a'", "v", "e", "i", "s", " ", "T", "e'", "c", "n", "i",
      "c", "o", "s", " ", "e", "/", "o", "u", " ", "F", "i", "s", "c", "a",
      "l", "i", "z", "a", "d", "o", "s">>

\* "05 - Documentos Solicitados / Expedidos"
Titulo05 ==
    <<"0", "5", " ", "-", " ", "D", "o", "c", "u", "m", "e", "n", "t", "o",
      "s", " ", "S", "o", "l", "i", "c", "i", "t", "a", "d", "o", "s", " ",
      "/", " ", "E", "x", "p", "e", "d", "i", "d", "o", "s">>

\* "06 - Documentos Recebidos"
Titulo06 ==
    <<"0", "6", " ", "-", " ", "D", "o", "c", "u", "m", "e", "n", "t", "o",
      "s", " ", "R", "e", "c", "e", "b", "i", "d", "o", "s">>

\* "07 - Outras Informac,o~es"
Titulo07 ==
    <<"0", "7", " ", "-", " ", "O", "u", "t", "r", "a", "s", " ", "I", "n",
      "f", "o", "r", "m", "a", "c,", "o~", "e", "s">>

\* "08 - Fotos"
Titulo08 == <<"0", "8", " ", "-", " ", "F", "o", "t", "o", "s">>

\* " foto(s) extrai'da(s) da sec,a~o 08 - Fotos"
FotosExtraidasMsg ==
    <<" ", "f", "o", "t", "o", "(", "s", ")", " ", "e", "x", "t", "r", "a",
      "i'", "d", "a", "(", "s", ")", " ", "d", "a", " ", "s", "e", "c,",
      "a~", "o", " ", "0", "8", " ", "-", " ", "F", "o", "t", "o", "s">>

\* "Sec,a~o de fotos encontrada, mas nenhuma imagem extrai'da"
FotosNenhumaImagemMsg ==
    <<"S", "e", "c,", "a~", "o", " ", "d", "e", " ", "f", "o", "t", "o",
      "s", " ", "e", "n", "c", "o", "n", "t", "r", "a", "d", "a", ",", " ",
      "m", "a", "s", " ", "n", "e", "n", "h", "u", "m", "a", " ", "i", "m",
      "a", "g", "e", "m", " ", "e", "x", "t", "r", "a", "i'", "d", "a">>

\* "Nenhuma sec,a~o de fotos encontrada"
FotosNenhumaSecaoMsg ==
    <<"N", "e", "n", "h", "u", "m", "a", " ", "s", "e", "c,", "a~", "o",
      " ", "d", "e", " ", "f", "o", "t", "o", "s", " ", "e", "n", "c", "o",
      "n", "t", "r", "a", "d", "a">>

\* "foto(s) extrai'da(s) da sec,a~o 08 - Fotos"
FotosMarcaRelatorio ==
    <<"f", "o", "t", "o", "(", "s", ")", " ", "e", "x", "t", "r", "a",
      "i'", "d", "a", "(", "s", ")", " ", "d", "a", " ", "s", "e", "c,",
      "a~", "o", " ", "0", "8", " ", "-", " ", "F", "o", "t", "o", "s">>

\* "SBXD"
SBXD == <<"S", "B", "X", "D">>

\* "Latitude"
L_Latitude == <<"L", "a", "t", "i", "t", "u", "d", "e">>

\* "Longitude"
L_Longitude == <<"L", "o", "n", "g", "i", "t", "u", "d", "e">>

\* "Descritivo:"
L_Descritivo == <<"D", "e", "s", "c", "r", "i", "t", "i", "v", "o", ":">>

\* "Informac,o~es"
L_Informacoes == <<"I", "n", "f", "o", "r", "m", "a", "c,", "o~", "e", "s">>

\* "Complementares"
L_Complementares ==
    <<"C", "o", "m", "p", "l", "e", "m", "e", "n", "t", "a", "r", "e", "s">>

\* ------------------------------------------------------------ helpers of the source

\* Python's None, kept apart from every str (no text holds this character)
None == <<"None">>

\* the IndexError an empty list raises on [0], as a returned value
IndexError == <<"IndexError">>

\* `if texto`: neither None nor the empty str
Truthy(v) == v # None /\ v # <<>>

\* [A-Za-zÀ-ÿ]
LatinLetters == UpperAscii \cup LowerAscii \cup UpperAccented \cup LowerAccented

\* r'^(SEM|NAO|NÃO|NAO INFORMADO|SEM INFORMAÇÃO)\s*[A-Z]*\s*$'
ReEmptyInfo ==
    <<Bos, Open(1), Alt(<<SEM, NAO, NAO_til, NAO_INFORMADO, SEM_INFORMACAO>>),
      Close(1), Star(Whitespace), Star(UpperAscii), Star(Whitespace), Eol>>

is_empty_info(text) ==
    IF ~Truthy(text) THEN TRUE
    ELSE \E t \in {strip(text)} : t = <<>> \/ search(ReEmptyInfo, t, TRUE).ok

clean_text(text) ==
    IF ~Truthy(text) THEN <<>>
    ELSE The({ join(" ", palavras)
               : palavras \in {split(strip([i \in 1..Len(text) |->
                                  IF text[i] = "\n" THEN " " ELSE text[i]]))} })

\* r'(\d+\s*-\s*)([A-Za-zÀ-ÿ\s]+)'
ReAgente ==
    <<Open(1), Plus(Digits), Star(Whitespace), Lit(<<"-">>), Star(Whitespace),
      Close(1), Open(2), Plus(LatinLetters \cup Whitespace), Close(2)>>

formatar_agente_fiscalizacao(texto) ==
    IF ~Truthy(texto) THEN <<>>
    ELSE The({ IF m.ok
               THEN The({ IF palavras = <<>> THEN IndexError
                          ELSE strip(group(texto, m, 1)) \o <<" ">>
                               \o capitalize(palavras[1])
                          : palavras \in {split(strip(group(texto, m, 2)))} })
               ELSE texto
               : m \in {match(ReAgente, texto, FALSE)} })

\* r'\d+\s*-\s*([A-Za-zÀ-ÿ\s]+)'
ReNomeCompleto ==
    <<Plus(Digits), Star(Whitespace), Lit(<<"-">>), Star(Whitespace),
      Open(1), Plus(LatinLetters \cup Whitespace), Close(1)>>

get_nome_completo_agente(texto) ==
    IF ~Truthy(texto) THEN <<>>
    ELSE The({ IF m.ok THEN strip(group(texto, m, 1)) ELSE texto
               : m \in {match(ReNomeCompleto, texto, FALSE)} })

\* [p.strip() for p in partes if p.strip()]
NaoVazias(partes) ==
    SelectSeq([i \in 1..Len(partes) |-> strip(partes[i])], LAMBDA p : p # <<>>)

formatar_responsavel(texto) ==
    IF ~Truthy(texto) THEN <<>>
    ELSE The({ IF partes # <<>> THEN partes[1] ELSE texto
               : partes \in {NaoVazias(SplitCharFrom(texto, "-", 1))} })

\* r'(\d{2}/\d{2}/\d{4})'
ReData ==
    <<Open(1), Rep(FALSE, Digits, 2, 2, FALSE), Lit(<<"/">>),
      Rep(FALSE, Digits, 2, 2, FALSE), Lit(<<"/">>),
      Rep(FALSE, Digits, 4, 4, FALSE), Close(1)>>

formatar_data_relatorio(texto) ==
    IF ~Truthy(texto) THEN <<>>
    ELSE The({ IF m.ok THEN group(texto, m, 1) ELSE texto
               : m \in {search(ReData, texto, FALSE)} })

\* r'(?:PROCESSO|PROTOCOLO)[/\s]*(\d+)'
ReProtocolo ==
    <<Alt(<<PROCESSO, PROTOCOLO>>), Star({"/"} \cup Whitespace),
      Open(1), Plus(Digits), Close(1)>>

extrair_numero_protocolo(texto) ==
    IF ~Truthy(texto) THEN <<>>
    ELSE The({ IF m.ok THEN group(texto, m, 1) ELSE <<>>
               : m \in {search(ReProtocolo, texto, TRUE)} })

\* r'AUTUA[ÇC]AO\s+(\d+)'
ReAutuacao ==
    <<Lit(<<"A", "U", "T", "U", "A">>), One({"C,", "C"}), Lit(<<"A", "O">>),
      Plus(Whitespace), Open(1), Plus(Digits), Close(1)>>

extrair_numero_autuacao(texto) ==
    IF ~Truthy(texto) THEN <<>>
    ELSE The({ IF m.ok THEN group(texto, m, 1) ELSE <<>>
               : m \in {search(ReAutuacao, texto, TRUE)} })

\* r'RF Principal\s*:\s*(\d+)'
ReRfPrincipal ==
    <<Lit(Lit_RF_Principal), Star(Whitespace), Lit(<<":">>), Star(Whitespace),
      Open(1), Plus(Digits), Close(1)>>

extrair_rf_principal(texto) ==
    IF ~Truthy(texto) THEN <<>>
    ELSE The({ IF m.ok THEN group(texto, m, 1) ELSE <<>>
               : m \in {search(ReRfPrincipal, texto, TRUE)} })

\* r'{}\s*(.*?)(?=\s*\*\d+\s*-\s*|\Z)'.format(re.escape(titulo_secao))
ReSecao(titulo_secao) ==
    <<Lit(titulo_secao), Star(Whitespace),
      Open(1), Rep(TRUE, {}, 0, -1, TRUE), Close(1),
      Look(<< <<Star(Whitespace), Lit(<<"*">>), Plus(Digits), Star(Whitespace),
                Lit(<<"-">>), Star(Whitespace)>>,
              <<Eos>> >>)>>

extrair_secao(texto, titulo_secao) ==
    The({ IF m.ok
          THEN The({ IF is_empty_info(conteudo) THEN None ELSE conteudo
                     : conteudo \in {strip(group(texto, m, 1))} })
          ELSE None
          : m \in { The({ search(padrao, texto, TRUE)
                          : padrao \in {ReSecao(titulo_secao)} }) } })

\* r'of[ií]cio', r'of\.', r'ofc', r'oficio', r'of[\s\-]?[0-9]'
PadroesOficio ==
    << <<Lit(<<"o", "f">>), One({"i", "i'"}), Lit(<<"c", "i", "o">>)>>,
       <<Lit(<<"o", "f", ".">>)>>,
       <<Lit(<<"o", "f", "c">>)>>,
       <<Lit(<<"o", "f", "i", "c", "i", "o">>)>>,
       <<Lit(<<"o", "f">>), Opt(Whitespace \cup {"-"}), One(Digits)>> >>

verificar_oficio(texto) ==
    IF ~Truthy(texto) \/ is_empty_info(texto) THEN 0
    ELSE IF \E texto_lower \in {lower(texto)} :
               \E i \in 1..Len(PadroesOficio) :
                  search(PadroesOficio[i], texto_lower, TRUE).ok
         THEN 1 ELSE 0

\* r'c[óo]pia\s+art'
ReCopiaArt ==
    <<Lit(<<"c">>), One({"o'", "o"}), Lit(<<"p", "i", "a">>), Plus(Whitespace),
      Lit(<<"a", "r", "t">>)>>

verificar_resposta_oficio(texto) ==
    IF ~Truthy(texto) \/ is_empty_info(texto) THEN 0
    ELSE IF \E texto_lower \in {lower(texto)} :
               search(ReCopiaArt, texto_lower, TRUE).ok
         THEN 1 ELSE 0

\* ------------------------------------------------------------ photos

\* str(n) for n >= 0
RECURSIVE str(_)
str(n) ==
    LET d == <<"0", "1", "2", "3", "4", "5", "6", "7", "8", "9">>
    IN  IF n < 10 THEN <<d[n + 1]>> ELSE str(n \div 10) \o <<d[(n % 10) + 1]>>

(* An uploaded PDF is [name, pdf_ok, pages]: its file name, whether           *)
(* pdfplumber can open it, and its pages.  A page is [text, height, images]  *)
(* (extract_text(), .height, .images); an image is [top, width, height,      *)
(* stream], stream being "data" (get_data() returns bytes), "empty"          *)
(* (get_data() returns b''), "absent" (no 'stream' key) or "error"           *)
(* (get_data() or the write raises).                                         *)

\* the page number of the first page whose text holds "08 - Fotos"; 0 for None
encontrar_pagina_secao_fotos(pdf) ==
    LET ps == {n \in 1..Len(pdf.pages) : Contains(pdf.pages[n].text, Titulo08)}
    IN  IF ps = {} THEN 0 ELSE CHOOSE n \in ps : \A q \in ps : n <= q

\* FaixaExcluida without its second test: only the header band is excluded
FaixaSoCabecalho(y_pos, altura_pagina) == y_pos * 100 < altura_pagina * 15

\* y_pos < altura_pagina * 0.15 or y_pos > altura_pagina * 0.85, in hundredths;
\* for the page height of the model, 1000, the float products are exactly
\* 150.0 and 850.0
FaixaExcluida(y_pos, altura_pagina) ==
    y_pos * 100 < altura_pagina * 15 \/ y_pos * 100 > altura_pagina * 85

\* img['width'] < 100 or img['height'] < 100
MuitoPequena(img) == img.width < 100 \/ img.height < 100

\* the body of the loop over pagina.images for one image: the photo appended,
\* if any
FotoDaImagem(img, img_idx, altura_pagina, pagina_fotos) ==
    IF FaixaExcluida(img.top, altura_pagina) THEN <<>>
    ELSE IF MuitoPequena(img) THEN <<>>
    ELSE IF img.stream = "data"
         THEN << [nome |-> <<"f", "o", "t", "o", "_">> \o str(img_idx)
                             \o <<".", "p", "n", "g">>,
                  pagina |-> pagina_fotos] >>
         ELSE <<>>

RECURSIVE FotosDe(_, _, _, _)
FotosDe(images, img_idx, altura_pagina, pagina_fotos) ==
    IF img_idx > Len(images) THEN <<>>
    ELSE FotoDaImagem(images[img_idx], img_idx, altura_pagina, pagina_fotos)
         \o FotosDe(images, img_idx + 1, altura_pagina, pagina_fotos)

\* fotos_extraidas, the list returned
extrair_fotos_secao(pdf) ==
    The({ IF pagina_fotos = 0 THEN <<>>
          ELSE FotosDe(pdf.pages[pagina_fotos].images, 1,
                       pdf.pages[pagina_fotos].height, pagina_fotos)
          : pagina_fotos \in {encontrar_pagina_secao_fotos(pdf)} })

\* the st.error calls of extrair_fotos_secao: one per image that raises
ErrosFotos(pdf) ==
    The({ IF pagina_fotos = 0 THEN 0
          ELSE Cardinality({n \in 1..Len(pdf.pages[pagina_fotos].images) :
                  /\ ~FaixaExcluida(pdf.pages[pagina_fotos].images[n].top,
                                    pdf.pages[pagina_fotos].height)
                  /\ ~MuitoPequena(pdf.pages[pagina_fotos].images[n])
                  /\ pdf.pages[pagina_fotos].images[n].stream = "error"})
          : pagina_fotos \in {encontrar_pagina_secao_fotos(pdf)} })

\* ------------------------------------------------------------ extraction

\* the keys of dados, in the order the dict literal inserts them
Schema ==
    <<"RF", "RF Principal", "Situac,a~o", "Fiscal", "Supervisa~o", "Data",
      "Fato Gerador", "Protocolo", "Tipo Visita",
      "Enderec,o Empreendimento - Latitude",
      "Enderec,o Empreendimento - Longitude",
      "Enderec,o Empreendimento - Enderec,o",
      "Enderec,o Empreendimento - Descritivo",
      "Identificac,a~o do Contratante",
      "Atividade Desenvolvida",
      "Identificac,a~o dos Contratados/Responsa'veis",
      "Autuac,a~o",
      "Documentos Solicitados/Expedidos",
      "Ofi'cio",
      "Documentos Recebidos",
      "Resposta Ofi'cio",
      "Outras Informac,o~es - Data Relato'rio Anterior",
      "Outras Informac,o~es - Informac,o~es Complementares",
      "Fotos",
      "Ac,o~es",
      "Fiscal Nome Completo",
      "Supervisa~o Sigla",
      "Nome Arquivo",
      "Fotos Extrai'das">>

SchemaKeys == {Schema[n] : n \in 1..Len(Schema)}

\* DadosIniciais with 'Situação' starting as "NAO INFORMADO" instead of ''
DadosComSituacaoPreenchida(filename) ==
    [c \in SchemaKeys |->
        CASE c \in {"Ofi'cio", "Resposta Ofi'cio", "Ac,o~es", "Fotos Extrai'das"} -> 0
          [] c = "Supervisa~o Sigla" -> SBXD
          [] c = "Nome Arquivo" -> filename
          [] c = "Situac,a~o" -> NAO_INFORMADO
          [] OTHER -> <<>>]

\* the dict literal dados starts as
DadosIniciais(filename) ==
    [c \in SchemaKeys |->
        CASE c \in {"Ofi'cio", "Resposta Ofi'cio", "Ac,o~es", "Fotos Extrai'das"} -> 0
          [] c = "Supervisa~o Sigla" -> SBXD
          [] c = "Nome Arquivo" -> filename
          [] OTHER -> <<>>]

\* r'\s*:\s*([^\n]+)', the end of every pattern of campos_meta
FimCampo ==
    <<Star(Whitespace), Lit(<<":">>), Star(Whitespace),
      Open(1), Rep(TRUE, {"\n"}, 1, -1, FALSE), Close(1)>>

\* the label and pattern pairs of campos_meta, in order
campos_meta ==
    << <<"RF", <<Lit(L_Numero)>> \o FimCampo>>,
       <<"Situac,a~o", <<Lit(<<"S", "i", "t", "u", "a", "c,", "a~", "o">>)>> \o FimCampo>>,
       <<"Fiscal", <<Lit(<<"A", "g", "e", "n", "t", "e">>), Plus(Whitespace),
                     Lit(<<"d", "e">>), Plus(Whitespace), Lit(L_Fiscalizacao)>>
                   \o FimCampo>>,
       <<"Supervisa~o", <<Lit(L_Responsavel)>> \o FimCampo>>,
       <<"Data", <<Lit(L_Data), Plus(Whitespace), Lit(L_Relatorio)>> \o FimCampo>>,
       <<"Fato Gerador", <<Lit(<<"F", "a", "t", "o">>), Plus(Whitespace),
                           Lit(<<"G", "e", "r", "a", "d", "o", "r">>)>> \o FimCampo>>,
       <<"Protocolo", <<Lit(<<"P", "r", "o", "t", "o", "c", "o", "l", "o">>)>> \o FimCampo>>,
       <<"Tipo Visita", <<Lit(<<"T", "i", "p", "o">>), Plus(Whitespace),
                          Lit(<<"V", "i", "s", "i", "t", "a">>)>> \o FimCampo>> >>

\* the loop over campos_meta from entry n on
RECURSIVE ExtrairMeta(_, _, _)
ExtrairMeta(dados, texto, n) ==
    IF n > Len(campos_meta) THEN dados
    ELSE The({ ExtrairMeta(IF m.ok
                           THEN [dados EXCEPT ![campos_meta[n][1]] =
                                                  clean_text(group(texto, m, 1))]
                           ELSE dados,
                           texto, n + 1)
               : m \in {search(campos_meta[n][2], texto, FALSE)} })

\* [-\d,.]+
Coordenada == Plus({"-", ",", "."} \cup Digits)

\* r'Latitude\s*:\s*([-\d,.]+)'
ReLatitude ==
    <<Lit(L_Latitude), Star(Whitespace), Lit(<<":">>), Star(Whitespace),
      Open(1), Coordenada, Close(1)>>

\* r'Longitude\s*:\s*([-\d,.]+)'
ReLongitude ==
    <<Lit(L_Longitude), Star(Whitespace), Lit(<<":">>), Star(Whitespace),
      Open(1), Coordenada, Close(1)>>

\* r'Latitude\s*:\s*[-\d,.]+\s*Longitude\s*:\s*[-\d,.]+'
coord_pattern ==
    <<Lit(L_Latitude), Star(Whitespace), Lit(<<":">>), Star(Whitespace), Coordenada,
      Star(Whitespace),
      Lit(L_Longitude), Star(Whitespace), Lit(<<":">>), Star(Whitespace), Coordenada>>

\* s.split(lit)[-1]: what follows the last lit in s
AposUltimo(s, lit) ==
    LET ps == {p \in 1..(Len(s) + 1) : LitAt(s, p, lit, FALSE)}
    IN  IF ps = {} THEN s
        ELSE Slice(s, (CHOOSE p \in ps : \A q \in ps : p >= q) + Len(lit), Len(s))

\* s.split(lit)[0]: what precedes the first lit in s
AntesPrimeiro(s, lit) ==
    IF Find(s, lit) = 0 THEN s ELSE Slice(s, 1, Find(s, lit) - 1)

\* what section 01 stores, given its text
Endereco(dados, secao_endereco) ==
    The({ [dados EXCEPT
             !["Enderec,o Empreendimento - Latitude"] =
                 IF v.lat_match.ok
                 THEN clean_text(group(secao_endereco, v.lat_match, 1)) ELSE @,
             !["Enderec,o Empreendimento - Longitude"] =
                 IF v.long_match.ok
                 THEN clean_text(group(secao_endereco, v.long_match, 1)) ELSE @,
             !["Enderec,o Empreendimento - Enderec,o"] =
                 IF v.endereco_lines # <<>>
                 THEN clean_text(v.endereco_lines[1]) ELSE @,
             !["Enderec,o Empreendimento - Descritivo"] =
                 IF v.tem_descritivo /\ v.desc_text # <<>> THEN v.desc_text ELSE @]
          : v \in { [lat_match |-> search(ReLatitude, secao_endereco, FALSE),
                     long_match |-> search(ReLongitude, secao_endereco, FALSE),
                     endereco_lines |->
                         The({ NaoVazias(SplitCharFrom(endereco_part, "\n", 1))
                               : endereco_part \in
                                   {sub_empty(coord_pattern, secao_endereco, TRUE)} }),
                     tem_descritivo |-> Contains(secao_endereco, L_Descritivo),
                     desc_text |->
                         The({ clean_text(resto)
                               : resto \in
                                   {AposUltimo(secao_endereco, L_Descritivo)} })] } })

\* section 01 of extrair_todos_dados
Secao01(dados, texto) ==
    The({ IF ~Truthy(secao_endereco) THEN dados
          ELSE Endereco(dados, secao_endereco)
          : secao_endereco \in {extrair_secao(texto, Titulo01)} })

\* sections 02 and 03
Secao02e03(dados, texto) ==
    The({ [dados EXCEPT
             !["Identificac,a~o do Contratante"] =
                 IF Truthy(v.secao_contratante)
                 THEN clean_text(v.secao_contratante) ELSE @,
             !["Atividade Desenvolvida"] =
                 IF Truthy(v.secao_atividade)
                 THEN clean_text(v.secao_atividade) ELSE @]
          : v \in { [secao_contratante |-> extrair_secao(texto, Titulo02),
                     secao_atividade |-> extrair_secao(texto, Titulo03)] } })

\* r'Ramo\s+Atividade\s*:'
ReRamoAtividade ==
    <<Lit(<<"R", "a", "m", "o">>), Plus(Whitespace),
      Lit(<<"A", "t", "i", "v", "i", "d", "a", "d", "e">>), Star(Whitespace), Lit(<<":">>)>>

\* section 04
Secao04(dados, texto) ==
    The({ IF ~Truthy(secao_contratados) THEN dados
          ELSE [dados EXCEPT
                 !["Identificac,a~o dos Contratados/Responsa'veis"] =
                     clean_text(secao_contratados),
                 !["Autuac,a~o"] = extrair_numero_autuacao(secao_contratados),
                 !["Ac,o~es"] = findall_len(ReRamoAtividade, secao_contratados, TRUE)]
          : secao_contratados \in {extrair_secao(texto, Titulo04)} })

\* what section 05 stores, given its text
DocsSolicitados(dados, secao_docs_solicitados) ==
    The({ [dados EXCEPT
             !["Documentos Solicitados/Expedidos"] = clean_text(conteudo),
             !["Ofi'cio"] = verificar_oficio(conteudo)]
          : conteudo \in
              { The({ strip(antes)
                      : antes \in {AntesPrimeiro(secao_docs_solicitados,
                                                 L_Fonte_Informacao)} }) } })

\* section 05
Secao05(dados, texto) ==
    The({ IF ~Truthy(secao_docs_solicitados) THEN dados
          ELSE DocsSolicitados(dados, secao_docs_solicitados)
          : secao_docs_solicitados \in {extrair_secao(texto, Titulo05)} })

\* section 06
Secao06(dados, texto) ==
    The({ IF ~Truthy(secao_docs_recebidos) THEN dados
          ELSE [dados EXCEPT
                 !["Documentos Recebidos"] = clean_text(secao_docs_recebidos),
                 !["Resposta Ofi'cio"] =
                     verificar_resposta_oficio(secao_docs_recebidos)]
          : secao_docs_recebidos \in {extrair_secao(texto, Titulo06)} })

\* r'Data\s+do\s+Relatório\s+Anterior\s*:\s*([^\n]+)'
ReDataAnterior ==
    <<Lit(L_Data), Plus(Whitespace), Lit(<<"d", "o">>), Plus(Whitespace), Lit(L_Relatorio),
      Plus(Whitespace), Lit(<<"A", "n", "t", "e", "r", "i", "o", "r">>)>> \o FimCampo

\* r'Informações\s+Complementares\s*:\s*(.*)' with DOTALL
ReInfoComplementares ==
    <<Lit(L_Informacoes), Plus(Whitespace), Lit(L_Complementares), Star(Whitespace),
      Lit(<<":">>), Star(Whitespace), Open(1), Rep(TRUE, {}, 0, -1, FALSE), Close(1)>>

\* what section 07 stores, given its text
OutrasInformacoes(dados, secao_outras) ==
    The({ [dados EXCEPT
             !["Outras Informac,o~es - Data Relato'rio Anterior"] =
                 IF v.data_anterior.ok
                 THEN clean_text(group(secao_outras, v.data_anterior, 1)) ELSE @,
             !["Outras Informac,o~es - Informac,o~es Complementares"] =
                 IF v.info_complementares.ok
                 THEN clean_text(group(secao_outras, v.info_complementares, 1))
                 ELSE @]
          : v \in { [data_anterior |-> search(ReDataAnterior, secao_outras, FALSE),
                     info_complementares |->
                         search(ReInfoComplementares, secao_outras, FALSE)] } })

\* section 07
Secao07(dados, texto) ==
    The({ IF ~Truthy(secao_outras) THEN dados
          ELSE OutrasInformacoes(dados, secao_outras)
          : secao_outras \in {extrair_secao(texto, Titulo07)} })

\* the 'Fotos' status and the 'Fotos Extraídas' count, given the section text
\* and the photos extracted
StatusFotos(dados, secao_fotos, fotos_extraidas) ==
    IF Truthy(secao_fotos)
    THEN [dados EXCEPT
           !["Fotos Extrai'das"] = Len(fotos_extraidas),
           !["Fotos"] = IF fotos_extraidas # <<>>
                        THEN str(Len(fotos_extraidas)) \o FotosExtraidasMsg
                        ELSE FotosNenhumaImagemMsg]
    ELSE [dados EXCEPT !["Fotos"] = FotosNenhumaSecaoMsg]

\* section 08: the photos of the PDF and their status
Secao08(dados, texto, pdf) ==
    The({ StatusFotos(dados, v.secao_fotos, v.fotos_extraidas)
          : v \in { [secao_fotos |-> extrair_secao(texto, Titulo08),
                     fotos_extraidas |-> extrair_fotos_secao(pdf)] } })

\* Derivados without line 307: 'Protocolo' keeps what the "Protocolo:" label of
\* the text gave it
DerivadosSemProtocolo(dados, texto) ==
    [dados EXCEPT !["RF Principal"] = extrair_rf_principal(texto)]

\* Protocolo from the 'Fato Gerador' extracted, RF Principal from the whole text
Derivados(dados, texto) ==
    [dados EXCEPT !["Protocolo"] = extrair_numero_protocolo(dados["Fato Gerador"]),
                  !["RF Principal"] = extrair_rf_principal(texto)]

\* the formatting of Fiscal, Supervisão and Data; IndexError when
\* formatar_agente_fiscalizacao raises it
Formatados(dados) ==
    The({ IF fiscal = IndexError THEN IndexError
          ELSE [dados EXCEPT
                  !["Fiscal"] = fiscal,
                  !["Supervisa~o"] = formatar_responsavel(dados["Supervisa~o"]),
                  !["Data"] = formatar_data_relatorio(dados["Data"]),
                  !["Fiscal Nome Completo"] = get_nome_completo_agente(fiscal)]
          : fiscal \in {formatar_agente_fiscalizacao(dados["Fiscal"])} })

\* step n of extrair_todos_dados, in the order of the code
Passo(n, dados, texto, pdf) ==
    CASE n = 1 -> ExtrairMeta(dados, texto, 1)
      [] n = 2 -> Derivados(dados, texto)
      [] n = 3 -> Formatados(dados)
      [] n = 4 -> Secao01(dados, texto)
      [] n = 5 -> Secao02e03(dados, texto)
      [] n = 6 -> Secao04(dados, texto)
      [] n = 7 -> Secao05(dados, texto)
      [] n = 8 -> Secao06(dados, texto)
      [] n = 9 -> Secao07(dados, texto)
      [] n = 10 -> Secao08(dados, texto, pdf)

\* the steps from n on; an exception raised by a step ends the call
RECURSIVE Passos(_, _, _, _)
Passos(n, dados, texto, pdf) ==
    IF n > 10 \/ dados = IndexError THEN dados
    ELSE The({ Passos(n + 1, d, texto, pdf) : d \in {Passo(n, dados, texto, pdf)} })

\* dados as returned, or IndexError when the call raises it
extrair_todos_dados(texto, filename, pdf) ==
    The({ Passos(1, dados, texto, pdf) : dados \in {DadosIniciais(filename)} })

\* "\n".join(page.extract_text() or "" for page in pdf.pages)
TextoDoPdf(pdf) == join("\n", [n \in 1..Len(pdf.pages) |-> pdf.pages[n].text])

\* ------------------------------------------------------------ aggregation

\* the value pandas gives a cell no row supplies: NaN, which equals no count
\* and no sum; a number below every one of them stands for it
NaN == -1

\* the sum of column c over the rows
RECURSIVE SomaColuna(_, _)
SomaColuna(rows, c) ==
    IF rows = <<>> THEN 0 ELSE rows[1][c] + SomaColuna(Tail(rows), c)

\* df_total: the one row {'RF': 'TOTAL', 'Ações', 'Ofício', 'Resposta Ofício'}
\* as pd.concat aligns it on the columns of df_completo
LinhaTotal(rows) ==
    [c \in SchemaKeys |->
        CASE c = "RF" -> TOTAL
          [] c \in {"Ac,o~es", "Ofi'cio", "Resposta Ofi'cio"} -> SomaColuna(rows, c)
          [] OTHER -> NaN]

\* list.index(x), 1-based
IndexOf(l, x) == CHOOSE n \in 1..Len(l) : l[n] = x /\ \A q \in 1..(n - 1) : l[q] # x

\* idx_data = colunas.index('Data')
\* colunas.insert(idx_data + 1, colunas.pop(colunas.index('RF Principal')))
ReordenarColunas(cols) ==
    LET idx_data == IndexOf(cols, "Data") - 1
        k == IndexOf(cols, "RF Principal")
    IN  The({ The({ Slice(sem, 1, pos) \o <<"RF Principal">>
                    \o Slice(sem, pos + 1, Len(sem))
                    : pos \in {IF idx_data + 1 > Len(sem) THEN Len(sem)
                               ELSE idx_data + 1} })
              : sem \in {Slice(cols, 1, k - 1) \o Slice(cols, k + 1, Len(cols))} })

\* ------------------------------------------------------------ report

\* "TOTAL ("
TOTAL_abre == <<"T", "O", "T", "A", "L", " ", "(">>

\* "SIM"
SIM == <<"S", "I", "M">>

\* str(v)[:15] + '...' if len(str(v)) > 15 else str(v)
Truncar(v) == IF Len(v) > 15 THEN Slice(v, 1, 15) \o <<".", ".", ".">> ELSE v

\* '1' if v and str(v).strip() != '' else '0'
TemValor(v) == IF Truthy(v) /\ strip(v) # <<>> THEN <<"1">> ELSE <<"0">>

\* tem_fotos testing the word 'extraída' alone, which the status of a section
\* without images holds too
tem_fotos_por_extraida(row) ==
    IF Contains(row["Fotos"], <<"e", "x", "t", "r", "a", "i'", "d", "a">>)
    THEN SIM ELSE NAO_til

\* 'SIM' if 'foto(s) extraída(s) da seção 08 - Fotos' in str(row['Fotos'])
tem_fotos(row) ==
    IF Contains(row["Fotos"], FotosMarcaRelatorio) THEN SIM ELSE NAO_til

\* the ten cells the loop over df_validos prints for one row
LinhaRelatorio(row) ==
    [RFs |-> Truncar(row["RF"]),
     RF_Principal |-> Truncar(row["RF Principal"]),
     Legalizacao |-> TemValor(row["RF Principal"]),
     Data |-> row["Data"],
     Acoes |-> str(row["Ac,o~es"]),
     Oficios |-> str(row["Ofi'cio"]),
     Resposta_Oficios |-> str(row["Resposta Ofi'cio"]),
     Protocolos |-> TemValor(row["Protocolo"]),
     Autuacoes |-> TemValor(row["Autuac,a~o"]),
     Fotos |-> tem_fotos(row)]

\* df[df['RF'] != 'TOTAL'] if 'TOTAL' in df['RF'].values else df
df_validos(df) ==
    IF \E n \in 1..Len(df) : df[n]["RF"] = TOTAL
    THEN SelectSeq(df, LAMBDA row : row["RF"] # TOTAL)
    ELSE df

\* how many of the rows have the cell c equal to v
Contar(linhas, c, v) == Cardinality({n \in 1..Len(linhas) : linhas[n][c] = v})

\* the "TOTAL (n)" row printed after the loop
TotalRelatorio(validos) ==
    The({
         [RFs |-> TOTAL_abre \o str(Len(validos)) \o <<")">>,
         RF_Principal |-> <<>>,
         Legalizacao |-> <<>>,
         Data |-> <<>>,
         Acoes |-> str(SomaColuna(validos, "Ac,o~es")),
         Oficios |-> str(SomaColuna(validos, "Ofi'cio")),
         Resposta_Oficios |-> str(SomaColuna(validos, "Resposta Ofi'cio")),
         Protocolos |-> str(Contar(linhas, "Protocolos", <<"1">>)),
         Autuacoes |-> str(Contar(linhas, "Autuacoes", <<"1">>)),
         Fotos |-> str(Contar(linhas, "Fotos", SIM))]
         : linhas \in {[n \in 1..Len(validos) |-> LinhaRelatorio(validos[n])]} })

\* the table of the PDF: the header's inspector name, the rows, the totals row
\* (the period and timestamp lines of the header are not modelled)
gerar_relatorio_completo(df) ==
    The({ [agente |-> IF Len(df) > 0 THEN df[1]["Fiscal Nome Completo"] ELSE <<>>,
           linhas |-> [n \in 1..Len(validos) |-> LinhaRelatorio(validos[n])],
           total |-> TotalRelatorio(validos)]
          : validos \in {df_validos(df)} })

\* ------------------------------------------------------------ the batch

\* "a.pdf"
Nome1 == <<"a", ".", "p", "d", "f">>

\* "Nu'mero: 12345\nAgente de Fiscalizac,a~o: 1010 - CELINA SILVA\n04 - Identificac,a~o
\*    dos Contratados, Responsa'veis Te'cnicos e/ou Fiscalizados\nRamo Atividade: Civil\n
\*   05 - Documentos Solicitados / Expedidos\nOfi'cio 12"
Texto1 ==
    <<"N", "u'", "m", "e", "r", "o", ":", " ", "1", "2", "3", "4", "5",
      "\n", "A", "g", "e", "n", "t", "e", " ", "d", "e", " ", "F", "i",
      "s", "c", "a", "l", "i", "z", "a", "c,", "a~", "o", ":", " ", "1",
      "0", "1", "0", " ", "-", " ", "C", "E", "L", "I", "N", "A", " ", "S",
      "I", "L", "V", "A", "\n", "0", "4", " ", "-", " ", "I", "d", "e",
      "n", "t", "i", "f", "i", "c", "a", "c,", "a~", "o", " ", "d", "o",
      "s", " ", "C", "o", "n", "t", "r", "a", "t", "a", "d", "o", "s", ",",
      " ", "R", "e", "s", "p", "o", "n", "s", "a'", "v", "e", "i", "s",
      " ", "T", "e'", "c", "n", "i", "c", "o", "s", " ", "e", "/", "o",
      "u", " ", "F", "i", "s", "c", "a", "l", "i", "z", "a", "d", "o", "s",
      "\n", "R", "a", "m", "o", " ", "A", "t", "i", "v", "i", "d", "a",
      "d", "e", ":", " ", "C", "i", "v", "i", "l", "\n", "0", "5", " ",
      "-", " ", "D", "o", "c", "u", "m", "e", "n", "t", "o", "s", " ", "S",
      "o", "l", "i", "c", "i", "t", "a", "d", "o", "s", " ", "/", " ", "E",
      "x", "p", "e", "d", "i", "d", "o", "s", "\n", "O", "f", "i'", "c",
      "i", "o", " ", "1", "2">>

\* "b.pdf"
Nome2 == <<"b", ".", "p", "d", "f">>

\* "Nu'mero: 2\nData Relato'rio: 22/05/2025\nRF Principal: 9\n04 - Identificac,a~o dos 
\*   Contratados, Responsa'veis Te'cnicos e/ou Fiscalizados\nRamo Atividade: A\nRamo Ativ
\*   idade: B\nAUTUACAO 5\n08 - Fotos\nFoto 1"
Texto2 ==
    <<"N", "u'", "m", "e", "r", "o", ":", " ", "2", "\n", "D", "a", "t",
      "a", " ", "R", "e", "l", "a", "t", "o'", "r", "i", "o", ":", " ",
      "2", "2", "/", "0", "5", "/", "2", "0", "2", "5", "\n", "R", "F",
      " ", "P", "r", "i", "n", "c", "i", "p", "a", "l", ":", " ", "9",
      "\n", "0", "4", " ", "-", " ", "I", "d", "e", "n", "t", "i", "f",
      "i", "c", "a", "c,", "a~", "o", " ", "d", "o", "s", " ", "C", "o",
      "n", "t", "r", "a", "t", "a", "d", "o", "s", ",", " ", "R", "e", "s",
      "p", "o", "n", "s", "a'", "v", "e", "i", "s", " ", "T", "e'", "c",
      "n", "i", "c", "o", "s", " ", "e", "/", "o", "u", " ", "F", "i", "s",
      "c", "a", "l", "i", "z", "a", "d", "o", "s", "\n", "R", "a", "m",
      "o", " ", "A", "t", "i", "v", "i", "d", "a", "d", "e", ":", " ", "A",
      "\n", "R", "a", "m", "o", " ", "A", "t", "i", "v", "i", "d", "a",
      "d", "e", ":", " ", "B", "\n", "A", "U", "T", "U", "A", "C", "A",
      "O", " ", "5", "\n", "0", "8", " ", "-", " ", "F", "o", "t", "o",
      "s", "\n", "F", "o", "t", "o", " ", "1">>

\* "c.pdf"
Nome3 == <<"c", ".", "p", "d", "f">>

\* "Nu'mero: 3\nFato Gerador: PROCESSO 77\n05 - Documentos Solicitados / Expedidos\nOf.
\*    3\n06 - Documentos Recebidos\nCo'pia ART"
Texto3 ==
    <<"N", "u'", "m", "e", "r", "o", ":", " ", "3", "\n", "F", "a", "t",
      "o", " ", "G", "e", "r", "a", "d", "o", "r", ":", " ", "P", "R", "O",
      "C", "E", "S", "S", "O", " ", "7", "7", "\n", "0", "5", " ", "-",
      " ", "D", "o", "c", "u", "m", "e", "n", "t", "o", "s", " ", "S", "o",
      "l", "i", "c", "i", "t", "a", "d", "o", "s", " ", "/", " ", "E", "x",
      "p", "e", "d", "i", "d", "o", "s", "\n", "O", "f", ".", " ", "3",
      "\n", "0", "6", " ", "-", " ", "D", "o", "c", "u", "m", "e", "n",
      "t", "o", "s", " ", "R", "e", "c", "e", "b", "i", "d", "o", "s",
      "\n", "C", "o'", "p", "i", "a", " ", "A", "R", "T">>

\* "d.pdf"
Nome4 == <<"d", ".", "p", "d", "f">>

\* "Nu'mero: 4\nAgente de Fiscalizac,a~o: 1010 - 5"
Texto4 ==
    <<"N", "u'", "m", "e", "r", "o", ":", " ", "4", "\n", "A", "g", "e",
      "n", "t", "e", " ", "d", "e", " ", "F", "i", "s", "c", "a", "l", "i",
      "z", "a", "c,", "a~", "o", ":", " ", "1", "0", "1", "0", " ", "-",
      " ", "5">>

\* "e.pdf"
Nome5 == <<"e", ".", "p", "d", "f">>

\* "f.pdf"
Nome6 == <<"f", ".", "p", "d", "f">>

\* "Nu'mero: TOTAL\n04 - Identificac,a~o dos Contratados, Responsa'veis
\*   Te'cnicos e/ou Fiscalizados\nRamo Atividade: Civil\n05 - Documentos
\*   Solicitados / Expedidos\nOfi'cio 1"
Texto6 ==
    <<"N", "u'", "m", "e", "r", "o", ":", " ", "T", "O", "T", "A", "L",
      "\n", "0", "4", " ", "-", " ", "I", "d", "e", "n", "t", "i", "f",
      "i", "c", "a", "c,", "a~", "o", " ", "d", "o", "s", " ", "C", "o",
      "n", "t", "r", "a", "t", "a", "d", "o", "s", ",", " ", "R", "e", "s",
      "p", "o", "n", "s", "a'", "v", "e", "i", "s", " ", "T", "e'", "c",
      "n", "i", "c", "o", "s", " ", "e", "/", "o", "u", " ", "F", "i", "s",
      "c", "a", "l", "i", "z", "a", "d", "o", "s", "\n", "R", "a", "m",
      "o", " ", "A", "t", "i", "v", "i", "d", "a", "d", "e", ":", " ", "C",
      "i", "v", "i", "l", "\n", "0", "5", " ", "-", " ", "D", "o", "c",
      "u", "m", "e", "n", "t", "o", "s", " ", "S", "o", "l", "i", "c", "i",
      "t", "a", "d", "o", "s", " ", "/", " ", "E", "x", "p", "e", "d", "i",
      "d", "o", "s", "\n", "O", "f", "i'", "c", "i", "o", " ", "1">>

\* the images of a page: a logo in the header band, a photograph, a signature
\* in the footer band
ImagensPagina ==
    <<[top |-> 100, width |-> 200, height |-> 200, stream |-> "data"],
      [top |-> 500, width |-> 200, height |-> 200, stream |-> "data"],
      [top |-> 950, width |-> 200, height |-> 200, stream |-> "data"]>>

Pagina(text, images) == [text |-> text, height |-> 1000, images |-> images]

\* the files a user can upload: the fifth is no PDF pdfplumber can open, the
\* sixth is a report whose record id reads "TOTAL", the seventh ("g.pdf",
\* "Número: 7\n08 - Fotos\nFoto 1") has a photo section whose page holds a logo
\* only
Arquivos ==
    <<[name |-> Nome1, pdf_ok |-> TRUE, pages |-> <<Pagina(Texto1, <<>>)>>],
      [name |-> Nome2, pdf_ok |-> TRUE, pages |-> <<Pagina(Texto2, ImagensPagina)>>],
      [name |-> Nome3, pdf_ok |-> TRUE, pages |-> <<Pagina(Texto3, <<>>)>>],
      [name |-> Nome4, pdf_ok |-> TRUE, pages |-> <<Pagina(Texto4, <<>>)>>],
      [name |-> Nome5, pdf_ok |-> FALSE, pages |-> <<>>],
      [name |-> Nome6, pdf_ok |-> TRUE, pages |-> <<Pagina(Texto6, <<>>)>>],
      [name |-> <<"g", ".", "p", "d", "f">>, pdf_ok |-> TRUE,
       pages |-> <<Pagina(L_Numero \o <<":", " ", "7", "\n">> \o Titulo08
                          \o <<"\n", "F", "o", "t", "o", " ", "1">>,
                          <<ImagensPagina[1]>>)>>]>>

\* the longest list of files uploaded at once
MaxArquivos == 3

VARIABLES
    pc,               \* where extrator_pdf_consolidado stands
    uploaded_files,   \* st.file_uploader's list, as indices into Arquivos
    idx,              \* the position of the loop over uploaded_files
    temp_dir,         \* "nenhum", "existe" or "removido"
    temp_arquivos,    \* the files under temp_dir
    dados_completos,  \* the records appended so far
    df_completo,      \* the rows of the DataFrame, the totals row last
    colunas,          \* the columns of the DataFrame, in order
    relatorio,        \* the summary report, None until generated
    excecao,          \* the exception leaving the function, "" for none
    erros,            \* the number of st.error calls
    fn,               \* the function a direct call exercises, "" in a batch
    entrada,          \* the argument of the direct call
    saida             \* its result, None until it returns

vars == <<pc, uploaded_files, idx, temp_dir, temp_arquivos, dados_completos,
          df_completo, colunas, relatorio, excecao, erros, fn, entrada, saida>>

batch_vars == <<pc, uploaded_files, idx, temp_dir, temp_arquivos, dados_completos,
                df_completo, colunas, relatorio, excecao, erros>>

call_vars == <<fn, entrada, saida>>

\* the lists of at most n files
RECURSIVE Listas(_)
Listas(n) ==
    IF n = 0 THEN {<<>>}
    ELSE Listas(n - 1) \cup
         {Append(l, a) : l \in {l1 \in Listas(n - 1) : Len(l1) = n - 1},
                         a \in 1..Len(Arquivos)}

BatchInit ==
    /\ pc = "inicio"
    /\ idx = 0
    /\ temp_dir = "nenhum"
    /\ temp_arquivos = {}
    /\ dados_completos = <<>>
    /\ df_completo = <<>>
    /\ colunas = <<>>
    /\ relatorio = None
    /\ excecao = ""
    /\ erros = 0

NoCall == fn = "" /\ entrada = <<>> /\ saida = None

Init ==
    /\ BatchInit
    /\ uploaded_files \in Listas(MaxArquivos)
    /\ NoCall

\* if uploaded_files: temp_dir = criar_temp_dir()
Iniciar ==
    /\ pc = "inicio"
    /\ IF uploaded_files # <<>>
       THEN /\ temp_dir' = "existe"
            /\ idx' = 1
            /\ pc' = "loop"
       ELSE /\ pc' = "fim"
            /\ UNCHANGED <<temp_dir, idx>>
    /\ UNCHANGED <<uploaded_files, temp_arquivos, dados_completos, df_completo,
                   colunas, relatorio, excecao, erros>>
    /\ UNCHANGED call_vars

\* the files extrair_fotos_secao writes under temp_dir for fotos_extraidas
ArquivosDeFotos(filename, fotos_extraidas) ==
    {<<"fotos", filename, fotos_extraidas[n].nome>> : n \in 1..Len(fotos_extraidas)}

\* whether extrair_todos_dados called extrair_fotos_secao: `if secao_fotos`
ChamouFotos(dados) == dados["Fotos"] # FotosNenhumaSecaoMsg

\* what lines 565-569 compute for file: the text of its pages and the record
\* of extrair_todos_dados, with the photographs written and the st.error calls
\* made on the way; excecao names the exception raised, "" for none
Extracao(file) ==
    IF ~file.pdf_ok
    THEN [excecao |-> "PDFSyntaxError", dados |-> None, fotos |-> {}, erros |-> 0]
    ELSE The({ IF dados = IndexError
               THEN [excecao |-> "IndexError", dados |-> None, fotos |-> {},
                     erros |-> 0]
               ELSE IF ChamouFotos(dados)
               THEN [excecao |-> "", dados |-> dados,
                     fotos |-> The({ ArquivosDeFotos(file.name, fotos_extraidas)
                                     : fotos_extraidas \in
                                         {extrair_fotos_secao(file)} }),
                     erros |-> ErrosFotos(file)]
               ELSE [excecao |-> "", dados |-> dados, fotos |-> {}, erros |-> 0]
               : dados \in { The({ extrair_todos_dados(texto, file.name, file)
                                   : texto \in {TextoDoPdf(file)} }) } })

\* Extracao for each file of Arquivos
ExtracaoDe == <<Extracao(Arquivos[1]), Extracao(Arquivos[2]), Extracao(Arquivos[3]),
                Extracao(Arquivos[4]), Extracao(Arquivos[5]), Extracao(Arquivos[6]),
                Extracao(Arquivos[7])>>

\* one turn of the loop over uploaded_files: the file is written to temp_dir,
\* opened, extracted, its record appended and the file unlinked; an exception
\* of pdfplumber.open or extrair_todos_dados leaves the loop for the finally
ProcessarArquivo ==
    /\ pc = "loop"
    /\ idx <= Len(uploaded_files)
    /\ \E file \in {Arquivos[uploaded_files[idx]]} :
       \E r \in {ExtracaoDe[uploaded_files[idx]]} :
          IF r.excecao # ""
          THEN /\ excecao' = r.excecao
               /\ temp_arquivos' = temp_arquivos \cup {<<"pdf", file.name>>}
               /\ pc' = "finally"
               /\ UNCHANGED <<idx, dados_completos, erros>>
          ELSE /\ dados_completos' = Append(dados_completos, r.dados)
               /\ temp_arquivos' = (temp_arquivos \ {<<"pdf", file.name>>}) \cup r.fotos
               /\ erros' = erros + r.erros
               /\ idx' = idx + 1
               /\ UNCHANGED <<pc, excecao>>
    /\ UNCHANGED <<uploaded_files, temp_dir, df_completo, colunas, relatorio>>
    /\ UNCHANGED call_vars

\* after the loop: the DataFrame, its totals row and the column order; pandas
\* or st.dataframe may raise on the way (falha)
Agregar ==
    /\ pc = "loop"
    /\ idx > Len(uploaded_files)
    /\ \E falha \in BOOLEAN :
          IF falha
          THEN /\ excecao' = "Exception"
               /\ pc' = "finally"
               /\ UNCHANGED <<df_completo, colunas>>
          ELSE /\ df_completo' = Append(dados_completos, LinhaTotal(dados_completos))
               /\ colunas' = ReordenarColunas(Schema)
               /\ pc' = "relatorio"
               /\ UNCHANGED excecao
    /\ UNCHANGED <<uploaded_files, idx, temp_dir, temp_arquivos, dados_completos,
                   relatorio, erros>>
    /\ UNCHANGED call_vars

\* pdf_completo = gerar_relatorio_completo(df_completo); its last line,
\* pdf.output(dest='S').encode('latin1'), raises when a cell holds a character
\* latin1 lacks (falha)
GerarRelatorio ==
    /\ pc = "relatorio"
    /\ \E falha \in BOOLEAN :
          IF falha
          THEN /\ excecao' = "UnicodeEncodeError"
               /\ UNCHANGED relatorio
          ELSE /\ relatorio' = gerar_relatorio_completo(df_completo)
               /\ UNCHANGED excecao
    /\ pc' = "finally"
    /\ UNCHANGED <<uploaded_files, idx, temp_dir, temp_arquivos, dados_completos,
                   df_completo, colunas, erros>>
    /\ UNCHANGED call_vars

\* limpar_temp_dir called after the try block instead of in a finally: an
\* exception leaves the function without it
limpar_temp_dir_sem_finally ==
    /\ pc = "finally"
    /\ IF excecao = ""
       THEN temp_dir' = "removido" /\ temp_arquivos' = {}
       ELSE UNCHANGED <<temp_dir, temp_arquivos>>
    /\ pc' = "fim"
    /\ UNCHANGED <<uploaded_files, idx, dados_completos, df_completo, colunas,
                   relatorio, excecao, erros>>
    /\ UNCHANGED call_vars

\* finally: limpar_temp_dir(temp_dir), which removes the directory and all in it
limpar_temp_dir ==
    /\ pc = "finally"
    /\ temp_dir' = "removido"
    /\ temp_arquivos' = {}
    /\ pc' = "fim"
    /\ UNCHANGED <<uploaded_files, idx, dados_completos, df_completo, colunas,
                   relatorio, excecao, erros>>
    /\ UNCHANGED call_vars

Next == Iniciar \/ ProcessarArquivo \/ Agregar \/ GerarRelatorio \/ limpar_temp_dir

Spec == Init /\ [][Next]_vars

\* the sequential program takes its next step whenever it has one
FairSpec == Spec /\ WF_vars(Next)

\* ------------------------------------------------------------ direct calls

\* the section titles, in the order of the document
Titulos ==
    <<Titulo01, Titulo02, Titulo03, Titulo04, Titulo05, Titulo06, Titulo07, Titulo08>>

\* the ways a document lays a section body out: bare, or between blank space
Variantes == {1, 2}

\* what stands before each title of a document: nothing, or an asterisk
Marcas == {<<>>, <<"*">>}

\* the body of section k: "corpo k", bare or between blank space
Corpo(k, v) ==
    IF v = 1 THEN <<"c", "o", "r", "p", "o", " ">> \o str(k)
    ELSE <<" ", "\n", "c", "o", "r", "p", "o", " ">> \o str(k) \o <<" ", " ">>

\* sections k..08 of a document: each title on a line, then its body
RECURSIVE Secoes(_, _, _)
Secoes(k, v, marca) ==
    IF k > Len(Titulos) THEN <<>>
    ELSE marca \o Titulos[k] \o <<"\n">> \o Corpo(k, v) \o <<"\n">>
         \o Secoes(k + 1, v, marca)

\* a document with its record id and all the titles, in order
DocumentoSecoes(v, marca) ==
    L_Numero \o <<":", " ", "1", "\n">> \o Secoes(1, v, marca)

\* the (texto, titulo_secao) pairs over those documents
EntradasSecoes ==
    {<<DocumentoSecoes(v, marca), Titulos[k]>> :
        v \in Variantes, marca \in Marcas, k \in 1..Len(Titulos)}

\* the absence markers
Marcadores == {SEM, NAO, NAO_til, NAO_INFORMADO, SEM_INFORMACAO}

\* words that may follow a marker: "FOTOS", "ANEXADAS", "ÁREA"
Palavras ==
    {<<"F", "O", "T", "O", "S">>,
     <<"A", "N", "E", "X", "A", "D", "A", "S">>,
     <<"A'", "R", "E", "A">>}

\* the most words that follow a marker
MaxPalavras == 2

\* the sequences of at most n words
RECURSIVE Sufixos(_)
Sufixos(n) ==
    IF n = 0 THEN {<<>>}
    ELSE Sufixos(n - 1) \cup
         {Append(ws, w) : ws \in {ws1 \in Sufixos(n - 1) : Len(ws1) = n - 1},
                          w \in Palavras}

\* the bodies that say a section has no information: the empty one, and a
\* marker in upper or lower case followed by words
CorposVazios ==
    {<<>>} \cup
    {join(" ", <<m>> \o ws) : m \in Marcadores \cup {lower(m1) : m1 \in Marcadores},
                              ws \in Sufixos(MaxPalavras)}

\* the (texto, titulo_secao) pairs of a last section with such a body
EntradasSecaoVazia == {<<Titulo08 \o <<"\n">> \o b, Titulo08>> : b \in CorposVazios}

\* the images a page can hold: a logo in the header band, a photograph, a
\* signature in the footer band, images on the edges of the bands, small
\* images, and images without data or that cannot be read
Imagens ==
    {[top |-> 100, width |-> 200, height |-> 200, stream |-> "data"],
     [top |-> 500, width |-> 200, height |-> 200, stream |-> "data"],
     [top |-> 950, width |-> 200, height |-> 200, stream |-> "data"],
     [top |-> 150, width |-> 100, height |-> 100, stream |-> "data"],
     [top |-> 850, width |-> 100, height |-> 100, stream |-> "data"],
     [top |-> 500, width |-> 99, height |-> 200, stream |-> "data"],
     [top |-> 500, width |-> 200, height |-> 99, stream |-> "data"],
     [top |-> 500, width |-> 200, height |-> 200, stream |-> "absent"],
     [top |-> 500, width |-> 200, height |-> 200, stream |-> "empty"],
     [top |-> 500, width |-> 200, height |-> 200, stream |-> "error"]}

\* the most images on a page
MaxImagens == 3

\* the lists of at most n images
RECURSIVE ListasDeImagens(_)
ListasDeImagens(n) ==
    IF n = 0 THEN {<<>>}
    ELSE ListasDeImagens(n - 1) \cup
         {Append(l, i) : l \in {l1 \in ListasDeImagens(n - 1) : Len(l1) = n - 1},
                         i \in Imagens}

\* "Número: 1"
TextoSemSecao == L_Numero \o <<":", " ", "1">>

\* "Foto 1"
Legenda == <<"F", "o", "t", "o", " ", "1">>

\* a PDF whose first page holds a photograph but not the marker, and whose
\* second page holds the marker and the images
PdfDeFotos(images) ==
    [name |-> Nome2, pdf_ok |-> TRUE,
     pages |-> <<Pagina(TextoSemSecao, <<ImagensPagina[2]>>),
                 Pagina(Titulo08 \o <<"\n">> \o Legenda, images)>>]

EntradasFotos == {PdfDeFotos(images) : images \in ListasDeImagens(MaxImagens)}

\* the texts of a one-page document as to its photo section: none, the title
\* and a caption, the title alone, the title in lower case and a caption, the
\* title and "SEM FOTOS"
TextosDeFotos ==
    {TextoSemSecao,
     TextoSemSecao \o <<"\n">> \o Titulo08 \o <<"\n">> \o Legenda,
     TextoSemSecao \o <<"\n">> \o Titulo08,
     TextoSemSecao \o <<"\n">> \o lower(Titulo08) \o <<"\n">> \o Legenda,
     TextoSemSecao \o <<"\n">> \o Titulo08 \o <<"\n">> \o SEM
         \o <<" ", "F", "O", "T", "O", "S">>}

\* the one-page PDFs over those texts, and the files of the batch that open
EntradasDados ==
    {[name |-> Nome2, pdf_ok |-> TRUE, pages |-> <<Pagina(t, images)>>] :
        t \in TextosDeFotos,
        images \in {<<>>, <<ImagensPagina[2]>>, ImagensPagina,
                    <<[ImagensPagina[2] EXCEPT !.stream = "absent"]>>}}
    \cup {Arquivos[a] : a \in {a1 \in 1..Len(Arquivos) : Arquivos[a1].pdf_ok}}

\* the "Fato Gerador" line of a document: none, a process number, a protocol
\* number in lower case after a slash, a text with a digit and no keyword
LinhasFatoGerador ==
    <<
      \* ""
<<>>,
      \* "\nFato Gerador: PROCESSO 77"
      <<"\n", "F", "a", "t", "o", " ", "G", "e", "r", "a", "d", "o", "r",
        ":", " ", "P", "R", "O", "C", "E", "S", "S", "O", " ", "7", "7">>,
      \* "\nFato Gerador: Protocolo/88 de 2024"
      <<"\n", "F", "a", "t", "o", " ", "G", "e", "r", "a", "d", "o", "r",
        ":", " ", "P", "r", "o", "t", "o", "c", "o", "l", "o", "/", "8",
        "8", " ", "d", "e", " ", "2", "0", "2", "4">>,
      \* "\nFato Gerador: Denu'ncia 5"
      <<"\n", "F", "a", "t", "o", " ", "G", "e", "r", "a", "d", "o", "r",
        ":", " ", "D", "e", "n", "u'", "n", "c", "i", "a", " ", "5">>
    >>

\* "\nProtocolo: 999"
LinhaProtocolo ==
    <<"\n", "P", "r", "o", "t", "o", "c", "o", "l", "o", ":", " ", "9",
      "9", "9">>

\* a one-page PDF with the record id, the "Fato Gerador" line g and, before it
\* (antes) or after it (depois), a "Protocolo:" line
PdfDeProtocolo(g, antes, depois) ==
    [name |-> Nome3, pdf_ok |-> TRUE,
     pages |-> <<Pagina(TextoSemSecao
                        \o (IF antes THEN LinhaProtocolo ELSE <<>>)
                        \o LinhasFatoGerador[g]
                        \o (IF depois THEN LinhaProtocolo ELSE <<>>), <<>>)>>]

EntradasProtocolo ==
    {PdfDeProtocolo(g, antes, depois) :
        g \in 1..Len(LinhasFatoGerador), antes \in BOOLEAN, depois \in BOOLEAN}

\* the field extractors and normalizers that take the text alone
Extratores ==
    {"formatar_agente_fiscalizacao", "get_nome_completo_agente",
     "formatar_responsavel", "formatar_data_relatorio",
     "extrair_numero_protocolo", "extrair_numero_autuacao",
     "extrair_rf_principal", "verificar_oficio", "verificar_resposta_oficio"}

\* the call nome(texto): what it returns, or IndexError when it raises it
Extrator(nome, texto) ==
    CASE nome = "formatar_agente_fiscalizacao" -> formatar_agente_fiscalizacao(texto)
      [] nome = "get_nome_completo_agente" -> get_nome_completo_agente(texto)
      [] nome = "formatar_responsavel" -> formatar_responsavel(texto)
      [] nome = "formatar_data_relatorio" -> formatar_data_relatorio(texto)
      [] nome = "extrair_numero_protocolo" -> extrair_numero_protocolo(texto)
      [] nome = "extrair_numero_autuacao" -> extrair_numero_autuacao(texto)
      [] nome = "extrair_rf_principal" -> extrair_rf_principal(texto)
      [] nome = "verificar_oficio" -> verificar_oficio(texto)
      [] nome = "verificar_resposta_oficio" -> verificar_resposta_oficio(texto)

\* values a field can hold: well-formed ones, and an inspector value with
\* digits and a dash but no name
EntradasExtratores ==
    {
      \* ""
<<>>,
      \* "1010 - CELINA SILVA"
      <<"1", "0", "1", "0", " ", "-", " ", "C", "E", "L", "I", "N", "A",
        " ", "S", "I", "L", "V", "A">>,
      \* "1010 - "
      <<"1", "0", "1", "0", " ", "-", " ">>,
      \* "1010 - 5"
      <<"1", "0", "1", "0", " ", "-", " ", "5">>,
      \* "1010"
      <<"1", "0", "1", "0">>,
      \* "SBXD - Baixada"
      <<"S", "B", "X", "D", " ", "-", " ", "B", "a", "i", "x", "a", "d",
        "a">>,
      \* " - "
      <<" ", "-", " ">>,
      \* "22/05/2025  Fato"
      <<"2", "2", "/", "0", "5", "/", "2", "0", "2", "5", " ", " ", "F",
        "a", "t", "o">>,
      \* "PROCESSO 77"
      <<"P", "R", "O", "C", "E", "S", "S", "O", " ", "7", "7">>,
      \* "protocolo/"
      <<"p", "r", "o", "t", "o", "c", "o", "l", "o", "/">>,
      \* "AUTUAC,AO 5"
      <<"A", "U", "T", "U", "A", "C,", "A", "O", " ", "5">>,
      \* "RF Principal : 9"
      <<"R", "F", " ", "P", "r", "i", "n", "c", "i", "p", "a", "l", " ",
        ":", " ", "9">>,
      \* "Of. 3"
      <<"O", "f", ".", " ", "3">>,
      \* "Co'pia ART"
      <<"C", "o'", "p", "i", "a", " ", "A", "R", "T">>,
      \* "SEM"
      <<"S", "E", "M">>
    }

\* a direct call of one function with one argument
InitChamadas ==
    /\ BatchInit
    /\ uploaded_files = <<>>
    /\ saida = None
    /\ \/ fn = "is_empty_info" /\ entrada \in CorposVazios
       \/ fn = "extrair_secao" /\ entrada \in EntradasSecoes \cup EntradasSecaoVazia
       \/ fn = "extrair_fotos_secao" /\ entrada \in EntradasFotos
       \/ fn = "extrair_todos_dados" /\ entrada \in EntradasDados \cup EntradasProtocolo
       \/ fn \in Extratores /\ entrada \in EntradasExtratores

\* the call returns v
Retorna(v) ==
    /\ saida' = v
    /\ pc' = "retorno"
    /\ UNCHANGED <<uploaded_files, idx, temp_dir, temp_arquivos, dados_completos,
                   df_completo, colunas, relatorio, excecao, erros, fn, entrada>>

Chama_is_empty_info ==
    /\ pc = "inicio"
    /\ fn = "is_empty_info"
    /\ \E v \in {is_empty_info(entrada)} : Retorna(v)

Chama_extrair_secao ==
    /\ pc = "inicio"
    /\ fn = "extrair_secao"
    /\ \E v \in {extrair_secao(entrada[1], entrada[2])} : Retorna(v)

Chama_extrair_fotos_secao ==
    /\ pc = "inicio"
    /\ fn = "extrair_fotos_secao"
    /\ \E v \in {extrair_fotos_secao(entrada)} : Retorna(v)

Chama_extrair_todos_dados ==
    /\ pc = "inicio"
    /\ fn = "extrair_todos_dados"
    /\ \E texto \in {TextoDoPdf(entrada)} :
       \E v \in {extrair_todos_dados(texto, entrada.name, entrada)} : Retorna(v)

Chama_extrator ==
    /\ pc = "inicio"
    /\ fn \in Extratores
    /\ \E v \in {Extrator(fn, entrada)} : Retorna(v)

NextChamadas ==
    \/ Chama_is_empty_info
    \/ Chama_extrair_secao
    \/ Chama_extrair_fotos_secao
    \/ Chama_extrair_todos_dados
    \/ Chama_extrator

SpecChamadas == InitChamadas /\ [][NextChamadas]_vars

\* ------------------------------------------------------------ properties

\* whether the processing of file a of Arquivos raises
Falha(a) ==
    \E file \in {Arquivos[a]} :
       \/ ~file.pdf_ok
       \/ \E texto \in {TextoDoPdf(file)} :
             extrair_todos_dados(texto, file.name, file) = IndexError

\* C1: when the batch has ended, every document of the input list whose own
\* processing does not fail has been processed and appended to the dataset,
\* whatever happened to the other documents
C1_FalhaNaoAbortaLote ==
    (pc = "fim" /\ uploaded_files # <<>>) =>
        \A i \in 1..Len(uploaded_files) :
            ~Falha(uploaded_files[i]) =>
                \E n \in 1..Len(dados_completos) :
                    dados_completos[n]["Nome Arquivo"] = Arquivos[uploaded_files[i]].name

\* a batch ended by the exception of its first document, with a sound document
\* after it
C1_LoteAbortado ==
    /\ pc = "fim"
    /\ excecao = "PDFSyntaxError"
    /\ uploaded_files = <<5, 1>>
    /\ dados_completos = <<>>

C3_CorpoAteProximoTitulo ==
    \A v \in Variantes, marca \in Marcas, k \in 1..Len(Titulos) :
        (/\ pc = "retorno"
         /\ fn = "extrair_secao"
         /\ entrada = <<DocumentoSecoes(v, marca), Titulos[k]>>)
        => saida = <<"c", "o", "r", "p", "o", " ">> \o str(k)

\* the body returned for the first title of a document with bare titles holds
\* the second title
C3_CorpoComTituloSeguinte ==
    /\ pc = "retorno"
    /\ fn = "extrair_secao"
    /\ entrada = <<DocumentoSecoes(1, <<>>), Titulo01>>
    /\ Contains(saida, Titulo02)

\* C4: for a body that is empty or an absence marker in any case, followed or
\* not by further uppercase words, is_empty_info returns true and extrair_secao
\* returns None
C4_MarcadorEhAusencia ==
    /\ (pc = "retorno" /\ fn = "is_empty_info") => saida = TRUE
    /\ (pc = "retorno" /\ fn = "extrair_secao" /\ entrada \in EntradasSecaoVazia)
           => saida = None

\* "SEM FOTOS ANEXADAS" was given to is_empty_info, which returned false
C4_DuasPalavras ==
    /\ pc = "retorno"
    /\ fn = "is_empty_info"
    /\ entrada = SEM \o <<" ", "F", "O", "T", "O", "S", " ",
                          "A", "N", "E", "X", "A", "D", "A", "S">>
    /\ saida = FALSE

\* the positions, on the page of the marker, of the images outside the bands
\* y < 0.15H and y > 0.85H and at least 100 wide and 100 high
ForaDasFaixas(pagina) ==
    {n \in 1..Len(pagina.images) :
        /\ pagina.images[n].top * 100 >= 15 * pagina.height
        /\ pagina.images[n].top * 100 <= 85 * pagina.height
        /\ pagina.images[n].width >= 100
        /\ pagina.images[n].height >= 100}

\* the n-th position of the set S, in increasing order
Enesimo(S, n) == CHOOSE x \in S : Cardinality({y \in S : y <= x}) = n

\* C5 as amended: of the images on the page of the marker, extrair_fotos_secao
\* persists, in order and under the name of their position, exactly those
\* outside the bands, at least 100 wide and high, whose stream yields data
\* without raising; of the images at 100, 500 and 950 it retains one
C5_FotosPersistidas ==
    (pc = "retorno" /\ fn = "extrair_fotos_secao") =>
        \E boas \in {{n \in ForaDasFaixas(entrada.pages[2]) :
                         entrada.pages[2].images[n].stream = "data"}} :
            /\ Len(saida) = Cardinality(boas)
            /\ \A j \in 1..Len(saida) :
                  /\ saida[j].nome = <<"f", "o", "t", "o", "_">>
                                     \o str(Enesimo(boas, j))
                                     \o <<".", "p", "n", "g">>
                  /\ saida[j].pagina = 2
            /\ entrada.pages[2].images = ImagensPagina => Len(saida) = 1

\* the page held the images at 100, 500 and 950 and one was retained
C5_ExemploUmaRetida ==
    /\ pc = "retorno"
    /\ fn = "extrair_fotos_secao"
    /\ entrada.pages[2].images = ImagensPagina
    /\ Len(saida) = 1
    /\ saida[1].nome = <<"f", "o", "t", "o", "_", "2", ".", "p", "n", "g">>

\* C5 as stated: every image outside the bands and at least 100 wide and high
\* is persisted
C5_TodasAsRestantes ==
    (pc = "retorno" /\ fn = "extrair_fotos_secao") =>
        Len(saida) = Cardinality(ForaDasFaixas(entrada.pages[2]))

\* whether some page of the PDF holds the marker "08 - Fotos"
TemMarcador(pdf) == \E n \in 1..Len(pdf.pages) : Contains(pdf.pages[n].text, Titulo08)

\* C6: the status 'Fotos' is the "no section" string exactly when no page
\* holds the marker, the "no image" string exactly when a page holds it and no
\* image qualifies, and the "N photos" string exactly when a page holds it and
\* N > 0 images qualify; the three strings differ
C6_StatusDasFotos ==
    (pc = "retorno" /\ fn = "extrair_todos_dados" /\ saida # IndexError) =>
        \E N \in {Len(extrair_fotos_secao(entrada))} :
            /\ FotosNenhumaSecaoMsg # FotosNenhumaImagemMsg
            /\ \A n \in 1..MaxImagens :
                  str(n) \o FotosExtraidasMsg
                      \notin {FotosNenhumaSecaoMsg, FotosNenhumaImagemMsg}
            /\ saida["Fotos"] = FotosNenhumaSecaoMsg <=> ~TemMarcador(entrada)
            /\ saida["Fotos"] = FotosNenhumaImagemMsg
                   <=> (TemMarcador(entrada) /\ N = 0)
            /\ saida["Fotos"] = str(N) \o FotosExtraidasMsg
                   <=> (TemMarcador(entrada) /\ N > 0)

\* a page with the marker and a photograph, but nothing after the title, gave
\* the "no section" status
C6_MarcadorSemStatus ==
    /\ pc = "retorno"
    /\ fn = "extrair_todos_dados"
    /\ entrada.pages[1].text = TextoSemSecao \o <<"\n">> \o Titulo08
    /\ entrada.pages[1].images = <<ImagensPagina[2]>>
    /\ saida["Fotos"] = FotosNenhumaSecaoMsg

\* the four numeric columns of the dataset
ColunasNumericas == {"Ac,o~es", "Ofi'cio", "Resposta Ofi'cio", "Fotos Extrai'das"}

\* C7: every numeric column of the totals row holds the sum of the column over
\* the other rows
C7_TotaisSaoSomas ==
    df_completo # <<>> =>
        \A c \in ColunasNumericas :
            df_completo[Len(df_completo)][c]
                = SomaColuna(SubSeq(df_completo, 1, Len(df_completo) - 1), c)

\* the batch of the documents with action counts 1, 2, 0 and letter flags
\* 1, 0, 1: the totals row holds 3 and 2, and no photo count
C7_TotalSemFotos ==
    /\ uploaded_files = <<1, 2, 3>>
    /\ Len(df_completo) = 4
    /\ df_completo[4]["Ac,o~es"] = 3
    /\ df_completo[4]["Ofi'cio"] = 2
    /\ df_completo[4]["Fotos Extrai'das"] = NaN
    /\ df_completo[2]["Fotos Extrai'das"] = 1

\* C8: in the totals row of the report the cells of Legalização, Protocolos,
\* Autuações and Fotos are blank
C8_FlagsEmBranco ==
    (pc = "finally" /\ excecao = "" /\ uploaded_files # <<>>) =>
        /\ relatorio.total.Legalizacao = <<>>
        /\ relatorio.total.Protocolos = <<>>
        /\ relatorio.total.Autuacoes = <<>>
        /\ relatorio.total.Fotos = <<>>

\* the totals row of a report counts the rows with a protocol, a filing and
\* photographs
C8_FlagsContadas ==
    /\ pc = "finally"
    /\ excecao = ""
    /\ uploaded_files = <<1, 2, 3>>
    /\ relatorio.total.Legalizacao = <<>>
    /\ relatorio.total.Protocolos = <<"1">>
    /\ relatorio.total.Autuacoes = <<"1">>
    /\ relatorio.total.Fotos = <<"1">>

\* C9: after the reordering, 'RF Principal' stands right after 'Data' and the
\* other columns keep their order
C9_RFPrincipalAposData ==
    colunas # <<>> =>
        /\ IndexOf(colunas, "RF Principal") = IndexOf(colunas, "Data") + 1
        /\ SelectSeq(colunas, LAMBDA c : c # "RF Principal")
               = SelectSeq(Schema, LAMBDA c : c # "RF Principal")

\* after the reordering 'Fato Gerador' stands between 'Data' and 'RF Principal'
C9_FatoGeradorNoMeio ==
    /\ colunas # <<>>
    /\ colunas[IndexOf(colunas, "Data") + 1] = "Fato Gerador"
    /\ colunas[IndexOf(colunas, "Data") + 2] = "RF Principal"

\* C10: the document with "Número: 12345" and "Agente de Fiscalização: 1010 -
\* CELINA SILVA" yields RF "12345", Fiscal "1010 Celina" and Fiscal Nome
\* Completo "CELINA SILVA", the name as written
C10_FiscalENomeCompleto ==
    (pc = "retorno" /\ fn = "extrair_todos_dados" /\ entrada = Arquivos[1]) =>
        /\ saida["RF"] = <<"1", "2", "3", "4", "5">>
        /\ saida["Fiscal"] = <<"1", "0", "1", "0", " ", "C", "e", "l", "i", "n", "a">>
        /\ saida["Fiscal Nome Completo"]
               = <<"C", "E", "L", "I", "N", "A", " ", "S", "I", "L", "V", "A">>

\* the record of that document holds "1010 - Celina" and "Celina"
C10_NomeEncurtado ==
    /\ pc = "retorno"
    /\ fn = "extrair_todos_dados"
    /\ entrada = Arquivos[1]
    /\ saida["RF"] = <<"1", "2", "3", "4", "5">>
    /\ saida["Fiscal"]
           = <<"1", "0", "1", "0", " ", "-", " ", "C", "e", "l", "i", "n", "a">>
    /\ saida["Fiscal Nome Completo"] = <<"C", "e", "l", "i", "n", "a">>

\* C11: no field extractor or normalizer raises: each call returns a text,
\* None or a flag, whatever the value it is given
C11_ExtratoresTotais ==
    /\ (pc = "retorno" /\ fn \in {"verificar_oficio", "verificar_resposta_oficio"})
           => saida \in {0, 1}
    /\ (pc = "retorno"
        /\ fn \in (Extratores \cup {"extrair_secao"})
                  \ {"verificar_oficio", "verificar_resposta_oficio"})
           => saida # IndexError

\* formatar_agente_fiscalizacao was given "1010 - ", digits and a dash with no
\* name, and raised IndexError
C11_AgenteSemNome ==
    /\ pc = "retorno"
    /\ fn = "formatar_agente_fiscalizacao"
    /\ entrada = <<"1", "0", "1", "0", " ", "-", " ">>
    /\ saida = IndexError

\* C12: the report holds one row for every document of the batch, in order and
\* under the record id extracted for it, and its totals row holds the sums of
\* the actions and of the official letters over all the documents
C12_UmaLinhaPorDocumento ==
    (pc = "finally" /\ excecao = "" /\ uploaded_files # <<>>) =>
        /\ Len(relatorio.linhas) = Len(uploaded_files)
        /\ \A n \in 1..Len(relatorio.linhas) :
              relatorio.linhas[n].RFs = Truncar(dados_completos[n]["RF"])
        /\ relatorio.total.Acoes = str(SomaColuna(dados_completos, "Ac,o~es"))
        /\ relatorio.total.Oficios = str(SomaColuna(dados_completos, "Ofi'cio"))

\* the batch of a report whose record id reads "TOTAL" and of another one: the
\* report holds the row of the second alone, and its totals leave the first out
C12_DocumentoTotalOmitido ==
    /\ pc = "finally"
    /\ excecao = ""
    /\ uploaded_files = <<6, 1>>
    /\ Len(dados_completos) = 2
    /\ dados_completos[1]["RF"] = TOTAL
    /\ Len(relatorio.linhas) = 1
    /\ relatorio.linhas[1].RFs = <<"1", "2", "3", "4", "5">>
    /\ relatorio.total.RFs = TOTAL_abre \o <<"1", ")">>
    /\ relatorio.total.Acoes = <<"1">>
    /\ SomaColuna(dados_completos, "Ac,o~es") = 2

\* whether the text does not hold the label, in any letter case
Falta(texto, rotulo) == ~Contains(lower(texto), lower(rotulo))

\* the label each field of the metadata block is read from
RotuloDoCampo ==
    [c \in {"RF", "RF Principal", "Situac,a~o", "Fiscal", "Fiscal Nome Completo",
            "Supervisa~o", "Data", "Fato Gerador", "Protocolo", "Tipo Visita"} |->
        CASE c = "RF" -> L_Numero
          [] c = "RF Principal" -> Lit_RF_Principal
          [] c = "Situac,a~o" -> <<"S", "i", "t", "u", "a", "c,", "a~", "o">>
          [] c \in {"Fiscal", "Fiscal Nome Completo"} -> L_Fiscalizacao
          [] c = "Supervisa~o" -> L_Responsavel
          [] c = "Data" -> L_Relatorio
          [] c \in {"Fato Gerador", "Protocolo"} -> <<"G", "e", "r", "a", "d", "o", "r">>
          [] c = "Tipo Visita" -> <<"V", "i", "s", "i", "t", "a">>]

\* the section each of the other fields is read from
SecaoDoCampo ==
    [c \in SchemaKeys \ (DOMAIN RotuloDoCampo \cup {"Supervisa~o Sigla", "Nome Arquivo"}) |->
        CASE c \in {"Enderec,o Empreendimento - Latitude",
                    "Enderec,o Empreendimento - Longitude",
                    "Enderec,o Empreendimento - Enderec,o",
                    "Enderec,o Empreendimento - Descritivo"} -> Titulo01
          [] c = "Identificac,a~o do Contratante" -> Titulo02
          [] c = "Atividade Desenvolvida" -> Titulo03
          [] c \in {"Identificac,a~o dos Contratados/Responsa'veis", "Autuac,a~o",
                    "Ac,o~es"} -> Titulo04
          [] c \in {"Documentos Solicitados/Expedidos", "Ofi'cio"} -> Titulo05
          [] c \in {"Documentos Recebidos", "Resposta Ofi'cio"} -> Titulo06
          [] c \in {"Outras Informac,o~es - Data Relato'rio Anterior",
                    "Outras Informac,o~es - Informac,o~es Complementares"} -> Titulo07
          [] c \in {"Fotos", "Fotos Extrai'das"} -> Titulo08]

\* the default of a field: 0 for the counters and flags, '' for the others
Padrao(c) ==
    IF c \in {"Ofi'cio", "Resposta Ofi'cio", "Ac,o~es", "Fotos Extrai'das"}
    THEN 0 ELSE <<>>

\* the record holds every key of the schema, and the default of every field
\* of campos whose label the text lacks or whose section extrair_secao reports
\* absent
ChavesEPadroes(dados, texto, campos) ==
    /\ DOMAIN dados = SchemaKeys
    /\ \A c \in campos \cap DOMAIN RotuloDoCampo :
          Falta(texto, RotuloDoCampo[c]) => dados[c] = <<>>
    /\ \A c \in campos \cap DOMAIN SecaoDoCampo :
          extrair_secao(texto, SecaoDoCampo[c]) = None => dados[c] = Padrao(c)

C14_FlagSegueContagem ==
    (pc = "finally" /\ excecao = "" /\ uploaded_files # <<>>) =>
        \E validos \in {SelectSeq(dados_completos, LAMBDA row : row["RF"] # TOTAL)} :
            /\ Len(relatorio.linhas) = Len(validos)
            /\ \A n \in 1..Len(validos) :
                  /\ relatorio.linhas[n].RFs = Truncar(validos[n]["RF"])
                  /\ relatorio.linhas[n].Fotos \in {SIM, NAO_til}
                  /\ relatorio.linhas[n].Fotos = SIM
                        <=> validos[n]["Fotos Extrai'das"] > 0

\* the report of a document with one photograph, one with a photo section and
\* no photograph and one with no photo section: SIM, NÃO and NÃO
C14_TresSituacoes ==
    /\ pc = "finally"
    /\ excecao = ""
    /\ uploaded_files = <<2, 7, 1>>
    /\ dados_completos[1]["Fotos Extrai'das"] = 1
    /\ dados_completos[2]["Fotos"] = FotosNenhumaImagemMsg
    /\ dados_completos[2]["Fotos Extrai'das"] = 0
    /\ dados_completos[3]["Fotos"] = FotosNenhumaSecaoMsg
    /\ relatorio.linhas[1].Fotos = SIM
    /\ relatorio.linhas[2].Fotos = NAO_til
    /\ relatorio.linhas[3].Fotos = NAO_til

\* the digits that follow PROCESSO or PROTOCOLO in each line of
\* LinhasFatoGerador
ProtocoloEsperado == << <<>>, <<"7", "7">>, <<"8", "8">>, <<>> >>

\* C15: 'Protocolo' holds the digits that follow PROCESSO or PROTOCOLO in the
\* 'Fato Gerador' field extracted, '' when there are none; a "Protocolo:" line
\* of the text, before or after, changes nothing
C15_ProtocoloDoFatoGerador ==
    (pc = "retorno" /\ fn = "extrair_todos_dados" /\ saida # IndexError) =>
        /\ saida["Protocolo"] = extrair_numero_protocolo(saida["Fato Gerador"])
        /\ \A g \in 1..Len(LinhasFatoGerador), antes \in BOOLEAN, depois \in BOOLEAN :
              entrada = PdfDeProtocolo(g, antes, depois)
                  => saida["Protocolo"] = ProtocoloEsperado[g]

\* the document with "Protocolo: 999" before "Fato Gerador: PROCESSO 77" and
\* again after it: 'Protocolo' holds "77"
C15_RotuloSemEfeito ==
    /\ pc = "retorno"
    /\ fn = "extrair_todos_dados"
    /\ entrada = PdfDeProtocolo(2, TRUE, TRUE)
    /\ saida["Fato Gerador"]
           = <<"P", "R", "O", "C", "E", "S", "S", "O", " ", "7", "7">>
    /\ saida["Protocolo"] = <<"7", "7">>

====
